---- MODULE Spec2Model ----
(***************************************************************************)
(* Authentication and credential lifecycle of the Equestrian Marketplace   *)
(* backend: the users table, the User model, UserRepository, UserService,  *)
(* AuthController, UserController and authMiddleware, as a state machine.  *)
(*                                                                         *)
(* Conventions                                                             *)
(*   - JS undefined is the string "undefined", JS null and SQL NULL are    *)
(*     the string "NULL"; a nullable timestamp and every "object or null"  *)
(*     result is a tuple: <<>> for null, <<v>> for the value v.            *)
(*   - a database row is a record with the snake_case column names, a User *)
(*     object a record with the camelCase property names of models/user.js.*)
(*   - time is counted in hours; the audit columns created_at and          *)
(*     updated_at, which no operation reads, are left out of the rows.     *)
(***************************************************************************)
EXTENDS Integers, Sequences, FiniteSets, TLC

VARIABLES
    users,      \* the users table: id -> row
    nextId,     \* the next uuid uuidv4() hands out
    nextTok,    \* the next value crypto.randomBytes(32) hands out
    now,        \* the clock (Date.now(), NOW()), in hours
    inflight,   \* per request slot: where a handler is suspended on an await
    resp,       \* the HTTP response just written, with the mail the request handed
                \* to the mail transport; NoResp once it is delivered
    verifyWins, \* history: verification token -> successful VerifyEmail calls
    resetWins   \* history: reset token -> ResetPassword calls that replaced the hash

vars == <<users, nextId, nextTok, now, inflight, resp, verifyWins, resetWins>>

VARIABLES
    migFiles,   \* the entries of the migrations directory
    migTable,   \* the names in the migrations table
    migRun      \* the runMigrations process: its loop, or how its last run ended

migVars == <<migFiles, migTable, migRun>>

VARIABLES
    authState,    \* AuthProvider: its user, token, loading and error state
    localStorage, \* the browser's localStorage: the items 'token' and 'user'
    mounted,      \* whether the effect that runs initializeAuth has run
    calls,        \* the async functions suspended on a request
    ret,          \* what the function that ran last returned
    route         \* the location the router shows

clientVars == <<authState, localStorage, mounted, calls, ret, route>>

----------------------------------------------------------------------------
(* Bounds of the model *)

MaxUsers == 2
MaxTokens == 3
MaxTime == 2

(* Program constants *)

\* new Date(Date.now() + 3600000): one hour
ResetTTL == 1
\* JWT_EXPIRES_IN || '1d'
JwtTTL == 24
\* password.length < 8
MinPasswordLen == 8

(* Inputs *)

Procs == {"r1", "r2"}
Emails == {"alice@example.com", "bob@example.com"}
Passwords == {"Password123", "Secret4567", "short"}
Tok(n) == "tok" \o ToString(n)
AllTokens == {Tok(n) : n \in 1..(MaxTokens + 1)}
UserIds == 1..(MaxUsers + 1)

Falsy(s) == s \in {"", "undefined", "NULL"}
Has(data, k) == k \in DOMAIN data

----------------------------------------------------------------------------
(* bcrypt *)

bcryptHash(password) == "$2b$10$" \o password

\* bcrypt.compare: false for a string that is no bcrypt hash (the empty string too)
bcryptCompare(password, hash) == hash = bcryptHash(password)

----------------------------------------------------------------------------
(* models/user.js *)

Str(data, k) == IF Has(data, k) THEN data[k] ELSE "undefined"
OrNull(data, k) == IF Has(data, k) /\ ~Falsy(data[k]) THEN data[k] ELSE "NULL"

\* new User(data); uuid is what uuidv4() returns
User(data, uuid) ==
    [ id                   |-> IF Has(data, "id") THEN data.id ELSE uuid,
      email                |-> Str(data, "email"),
      passwordHash         |-> IF Has(data, "passwordHash") /\ ~Falsy(data.passwordHash)
                               THEN data.passwordHash ELSE "",
      firstName            |-> Str(data, "firstName"),
      lastName             |-> Str(data, "lastName"),
      phone                |-> OrNull(data, "phone"),
      userType             |-> IF Has(data, "userType") /\ ~Falsy(data.userType)
                               THEN data.userType ELSE "buyer",
      businessName         |-> OrNull(data, "businessName"),
      isVerified           |-> Has(data, "isVerified") /\ data.isVerified,
      verificationToken    |-> OrNull(data, "verificationToken"),
      resetPasswordToken   |-> OrNull(data, "resetPasswordToken"),
      resetPasswordExpires |-> IF Has(data, "resetPasswordExpires")
                               THEN data.resetPasswordExpires ELSE <<>> ]

\* User.create(data): hashes data.password, then new User({...data, passwordHash})
UserCreate(data, uuid) ==
    User([passwordHash |-> bcryptHash(data.password)] @@ data, uuid)

verifyPassword(user, password) == bcryptCompare(password, user.passwordHash)

SecretFields == {"passwordHash", "verificationToken", "resetPasswordToken"}

\* toJSON that strips the password hash alone
toJSONKeepsTokens(user) == [k \in (DOMAIN user) \ {"passwordHash"} |-> user[k]]

\* user.toJSON()
toJSON(user) == [k \in (DOMAIN user) \ SecretFields |-> user[k]]

----------------------------------------------------------------------------
(* repositories/userRepository.js *)

Columns == {"id", "email", "password_hash", "first_name", "last_name", "phone",
            "user_type", "business_name", "is_verified", "verification_token", "reset_password_token",
            "reset_password_expires"}

mapDbUserToModel(dbUser) ==
    [ id                   |-> dbUser.id,
      email                |-> dbUser.email,
      passwordHash         |-> dbUser.password_hash,
      firstName            |-> dbUser.first_name,
      lastName             |-> dbUser.last_name,
      phone                |-> dbUser.phone,
      userType             |-> dbUser.user_type,
      businessName         |-> dbUser.business_name,
      isVerified           |-> dbUser.is_verified,
      verificationToken    |-> dbUser.verification_token,
      resetPasswordToken   |-> dbUser.reset_password_token,
      resetPasswordExpires |-> dbUser.reset_password_expires ]

Rows(tbl) == {tbl[i] : i \in DOMAIN tbl}

\* findById: SELECT * FROM users WHERE id = $1, then new User(result.rows[0])
findById(tbl, id) ==
    IF id \in DOMAIN tbl THEN << User(tbl[id], 0) >> ELSE <<>>

\* findByEmail with the lookup narrowed to verified accounts
findByEmailVerifiedOnly(tbl, email) ==
    LET rows == {r \in Rows(tbl) : r.email = email /\ r.is_verified}
    IN  IF rows = {} THEN <<>> ELSE << User(CHOOSE r \in rows : TRUE, 0) >>

\* findByEmail whose SELECT falls back to any row when no email matches
findByEmailOrAnyRow(tbl, email) ==
    LET rows == {r \in Rows(tbl) : r.email = email}
        pick == IF rows = {} THEN Rows(tbl) ELSE rows
    IN  IF pick = {} THEN <<>> ELSE << User(CHOOSE r \in pick : TRUE, 0) >>

\* findByEmail: SELECT * FROM users WHERE email = $1, then new User(result.rows[0])
findByEmail(tbl, email) ==
    LET rows == {r \in Rows(tbl) : r.email = email}
    IN  IF rows = {} THEN <<>> ELSE << User(CHOOSE r \in rows : TRUE, 0) >>

\* an INSERT that leaves verification_token out of its column list
InsertRowDropsToken(user) ==
    [ id                     |-> user.id,
      email                  |-> user.email,
      password_hash          |-> user.passwordHash,
      first_name             |-> user.firstName,
      last_name              |-> user.lastName,
      phone                  |-> user.phone,
      user_type              |-> user.userType,
      business_name          |-> user.businessName,
      is_verified            |-> user.isVerified,
      verification_token     |-> "NULL",
      reset_password_token   |-> "NULL",
      reset_password_expires |-> <<>> ]

\* the row INSERT INTO users (...) VALUES (...) writes for a User object
InsertRow(user) ==
    [ id                     |-> user.id,
      email                  |-> user.email,
      password_hash          |-> user.passwordHash,
      first_name             |-> user.firstName,
      last_name              |-> user.lastName,
      phone                  |-> user.phone,
      user_type              |-> user.userType,
      business_name          |-> user.businessName,
      is_verified            |-> user.isVerified,
      verification_token     |-> user.verificationToken,
      reset_password_token   |-> "NULL",
      reset_password_expires |-> <<>> ]

\* id UUID PRIMARY KEY, email ... UNIQUE
InsertViolates(tbl, row) ==
    \/ row.id \in DOMAIN tbl
    \/ \E r \in Rows(tbl) : r.email = row.email

\* key.replace(/([A-Z])/g, '_$1').toLowerCase(), on the property names in use
Snake(key) ==
    CASE key = "passwordHash"         -> "password_hash"
      [] key = "firstName"            -> "first_name"
      [] key = "lastName"             -> "last_name"
      [] key = "userType"             -> "user_type"
      [] key = "businessName"         -> "business_name"
      [] key = "isVerified"           -> "is_verified"
      [] key = "verificationToken"    -> "verification_token"
      [] key = "resetPasswordToken"   -> "reset_password_token"
      [] key = "resetPasswordExpires" -> "reset_password_expires"
      [] key = "createdAt"            -> "created_at"
      [] key = "updatedAt"            -> "updated_at"
      [] OTHER                        -> key

validFields == {"email", "password_hash", "first_name", "last_name", "phone",
                "user_type", "business_name", "is_verified", "verification_token",
                "reset_password_token", "reset_password_expires"}

\* the columns declared NOT NULL that update() can set
NotNullColumns == {"email", "password_hash", "first_name", "last_name", "user_type"}

\* node-postgres sends an undefined parameter as NULL
SqlValue(col, v) ==
    IF col \in {"email", "password_hash", "first_name", "last_name", "phone",
                "user_type", "business_name"} /\ v = "undefined"
    THEN "NULL" ELSE v

\* the row UPDATE users SET ... WHERE id = $1 leaves
UpdatedRow(row, updates) ==
    [c \in Columns |->
        LET ks == {k \in DOMAIN updates : Snake(k) = c}
        IN  IF c \in validFields /\ ks # {}
            THEN SqlValue(c, updates[CHOOSE k \in ks : TRUE])
            ELSE row[c]]

\* update() rejects: a NOT NULL or UNIQUE violation in the UPDATE, or no row
\* returned (mapDbUserToModel(undefined) throws)
updateThrows(tbl, id, updates) ==
    \/ id \notin DOMAIN tbl
    \/ LET row == UpdatedRow(tbl[id], updates)
       IN  \/ \E c \in NotNullColumns : row[c] = "NULL"
           \/ \E j \in DOMAIN tbl : j # id /\ tbl[j].email = row.email

\* the table after update(id, updates)
update(tbl, id, updates) ==
    IF updateThrows(tbl, id, updates) THEN tbl
    ELSE [tbl EXCEPT ![id] = UpdatedRow(tbl[id], updates)]

\* the rows of UPDATE users SET is_verified = true, verification_token = NULL
\* WHERE verification_token = $1
VerifyMatches(tbl, token) ==
    {i \in DOMAIN tbl : tbl[i].verification_token # "NULL"
                        /\ tbl[i].verification_token = token}

\* verifyEmail whose UPDATE leaves verification_token in place
verifyEmailKeepsToken(tbl, token) ==
    [i \in DOMAIN tbl |->
        IF i \in VerifyMatches(tbl, token)
        THEN [tbl[i] EXCEPT !.is_verified = TRUE]
        ELSE tbl[i]]

\* the table after UserRepository.verifyEmail(token): one statement
verifyEmailTable(tbl, token) ==
    [i \in DOMAIN tbl |->
        IF i \in VerifyMatches(tbl, token)
        THEN [tbl[i] EXCEPT !.is_verified = TRUE, !.verification_token = "NULL"]
        ELSE tbl[i]]

\* what UserRepository.verifyEmail(token) returns: result.rows[0] as a User, or null
verifyEmailResult(tbl, token) ==
    LET hit == VerifyMatches(tbl, token)
    IN  IF hit = {} THEN <<>>
        ELSE << User(mapDbUserToModel(verifyEmailTable(tbl, token)[CHOOSE i \in hit : TRUE]),
                     0) >>

\* the SELECT of resetPassword without the reset_password_expires > NOW() test
ResetMatchesAnyAge(tbl, token) ==
    {i \in DOMAIN tbl : /\ tbl[i].reset_password_token # "NULL"
                        /\ tbl[i].reset_password_token = token}

\* SELECT * FROM users WHERE reset_password_token = $1 AND reset_password_expires > NOW()
ResetMatches(tbl, token) ==
    {i \in DOMAIN tbl : /\ tbl[i].reset_password_token # "NULL"
                        /\ tbl[i].reset_password_token = token
                        /\ tbl[i].reset_password_expires # <<>>
                        /\ tbl[i].reset_password_expires[1] > now}

----------------------------------------------------------------------------
(* services/userService.js *)

Throw(msg) == [error |-> msg]

\* validatePassword that accepts every password
validatePasswordAcceptsAll(password) == FALSE

\* validatePassword(password) throws
validatePasswordThrows(password) ==
    Falsy(password) \/ Len(password) < MinPasswordLen

\* generateJWT(user): jwt.sign({id, email, userType}, secret, {expiresIn})
generateJWT(user) ==
    [ wellFormed |-> TRUE, sig |-> TRUE, id |-> user.id, email |-> user.email,
      userType |-> user.userType, exp |-> now + JwtTTL ]

\* loginUser that reads the row through mapDbUserToModel and leaves out the
\* verification check
loginUserNoVerifiedCheck(tbl, email, password) ==
    LET rows == {r \in Rows(tbl) : r.email = email}
        user == User(mapDbUserToModel(CHOOSE r \in rows : TRUE), 0)
    IN  IF rows = {} THEN Throw("Invalid email or password")
        ELSE IF ~verifyPassword(user, password)
             THEN Throw("Invalid email or password")
        ELSE [error |-> "", user |-> toJSON(user), token |-> generateJWT(user)]

\* loginUser that throws an error of its own for an email it does not find
loginUserUnknownEmailDistinct(tbl, email, password) ==
    LET found == findByEmail(tbl, email)
    IN  IF found = <<>> THEN Throw("User not found")
        ELSE IF ~verifyPassword(found[1], password)
             THEN Throw("Invalid email or password")
        ELSE IF ~found[1].isVerified
             THEN Throw("Please verify your email before logging in")
        ELSE [error |-> "", user |-> toJSON(found[1]), token |-> generateJWT(found[1])]

\* loginUser(email, password): the error thrown, or {user, token}
loginUser(tbl, email, password) ==
    LET found == findByEmail(tbl, email)
    IN  IF found = <<>> THEN Throw("Invalid email or password")
        ELSE IF ~verifyPassword(found[1], password)
             THEN Throw("Invalid email or password")
        ELSE IF ~found[1].isVerified
             THEN Throw("Please verify your email before logging in")
        ELSE [error |-> "", user |-> toJSON(found[1]), token |-> generateJWT(found[1])]

\* registerUser up to User.create: the error thrown, or the User to insert
registerUserDraft(tbl, userData, uuid, token) ==
    IF findByEmail(tbl, userData.email) # <<>>
    THEN Throw("User with this email already exists")
    ELSE IF validatePasswordThrows(userData.password)
    THEN Throw("Password must be at least 8 characters long")
    ELSE [error |-> "",
          user  |-> UserCreate([verificationToken |-> token, isVerified |-> FALSE]
                               @@ userData, uuid)]

\* the lookup of resetPassword(token, newPassword): the error thrown, or the
\* user found and the hash to store
resetPasswordLookup(tbl, token, newPassword) ==
    LET hit == ResetMatches(tbl, token)
    IN  IF hit = {} THEN Throw("Invalid or expired reset token")
        ELSE IF validatePasswordThrows(newPassword)
        THEN Throw("Password must be at least 8 characters long")
        ELSE [error |-> "",
              userId |-> User(mapDbUserToModel(tbl[CHOOSE i \in hit : TRUE]), 0).id,
              passwordHash |-> bcryptHash(newPassword)]

\* resetPassword that stores the new hash and leaves the token in place
resetPasswordKeepsToken(passwordHash) == [passwordHash |-> passwordHash]

\* resetPassword that clears the token and leaves the expiry in place
resetPasswordKeepsExpiry(passwordHash) ==
    [ passwordHash |-> passwordHash, resetPasswordToken |-> "NULL" ]

\* the updates resetPassword hands to update()
resetPasswordUpdates(passwordHash) ==
    [ passwordHash |-> passwordHash, resetPasswordToken |-> "NULL",
      resetPasswordExpires |-> <<>> ]

\* requestPasswordReset that stores the new token and leaves the expiry as it was
requestResetUpdatesKeepsExpiry(resetToken) == [resetPasswordToken |-> resetToken]

\* requestPasswordReset that also sends the account back to unverified
requestResetUpdatesUnverifies(resetToken) ==
    [ resetPasswordToken |-> resetToken, resetPasswordExpires |-> << now + ResetTTL >>,
      isVerified |-> FALSE ]

\* the updates requestPasswordReset hands to update()
requestResetUpdates(resetToken) ==
    [ resetPasswordToken |-> resetToken, resetPasswordExpires |-> << now + ResetTTL >> ]

\* the updates changePassword hands to update(): { passwordHash }
changePasswordUpdates(passwordHash) == [passwordHash |-> passwordHash]

\* updateProfile(userId, updates): the updates handed on to update()
safeUpdates(updates) ==
    [k \in (DOMAIN updates) \ {"password", "passwordHash", "isVerified"} |-> updates[k]]

----------------------------------------------------------------------------
(* middleware/authMiddleware.js *)

\* jwt.verify(token, secret): the error thrown, or "ok"
jwtVerify(token) ==
    IF ~token.wellFormed \/ ~token.sig THEN "JsonWebTokenError"
    ELSE IF now >= token.exp THEN "TokenExpiredError"
    ELSE "ok"

Reject(status, message) == [next |-> FALSE, status |-> status, message |-> message]

\* authMiddleware whose catch block answers every jwt.verify error alike
authMiddlewareOneMessage(tbl, header) ==
    IF header.scheme # "Bearer" THEN Reject(401, "Authentication required")
    ELSE IF jwtVerify(header.token) # "ok" THEN Reject(401, "Invalid token")
    ELSE LET found == findById(tbl, header.token.id)
         IN  IF found = <<>> THEN Reject(401, "User not found")
             ELSE IF ~found[1].isVerified THEN Reject(401, "Email not verified")
             ELSE [next |-> TRUE, user |-> toJSON(found[1])]

\* authMiddleware(req, res, next): the response it ends the request with, or
\* next() with req.user
authMiddleware(tbl, header) ==
    IF header.scheme # "Bearer" THEN Reject(401, "Authentication required")
    ELSE IF jwtVerify(header.token) = "JsonWebTokenError" THEN Reject(401, "Invalid token")
    ELSE IF jwtVerify(header.token) = "TokenExpiredError" THEN Reject(401, "Token expired")
    ELSE LET found == findById(tbl, header.token.id)
         IN  IF found = <<>> THEN Reject(401, "User not found")
             ELSE IF ~found[1].isVerified THEN Reject(401, "Email not verified")
             ELSE [next |-> TRUE, user |-> toJSON(found[1])]

\* if (typeof roles === 'string') roles = [roles]; an array is a set here
rolesArray(roles) == IF roles.type = "string" THEN {roles.value} ELSE roles.value

\* authorize(roles)(req, res, next): the response it ends the request with, or
\* next(); reqUser is req.user, <<>> when authMiddleware has not set it
authorize(roles, reqUser) ==
    IF reqUser = <<>> THEN Reject(401, "Authentication required")
    ELSE IF rolesArray(roles) # {} /\ reqUser[1].userType \notin rolesArray(roles)
    THEN Reject(403, "Forbidden: insufficient permissions")
    ELSE [next |-> TRUE]

\* the arguments authorize is built with
RoleArgs ==
    { [type |-> "string", value |-> r] : r \in {"buyer", "seller", "admin"} }
    \cup { [type |-> "array", value |-> S] : S \in SUBSET {"buyer", "seller", "admin"} }

----------------------------------------------------------------------------
(* The requests the model issues *)

\* alice registers without a userType, bob as a seller
RegisterBodies ==
    { [ email |-> e, password |-> pw, firstName |-> "Ann", lastName |-> "Lee",
        phone |-> "undefined",
        userType |-> IF e = "bob@example.com" THEN "seller" ELSE "undefined",
        businessName |-> "undefined" ]
      : e \in Emails \cup {""}, pw \in {"Password123", "short"} }

\* the same registrations sent with a userType outside buyer, seller, admin
OddRoleBodies == { [b EXCEPT !.userType = "breeder"] : b \in RegisterBodies }

LoginBodies == { [email |-> e, password |-> pw] : e \in Emails \cup {""}, pw \in Passwords }

ForgotBodies == { [email |-> e] : e \in Emails \cup {""} }

ResetBodies ==
    { [token |-> t, password |-> pw] : t \in AllTokens, pw \in {"Secret4567", "short", ""} }

\* a string that is no JWT, a JWT signed with another secret, and JWTs signed
\* with the secret of the process
Garbage == [wellFormed |-> FALSE, sig |-> FALSE, id |-> 1, exp |-> 1]
Forged == [wellFormed |-> TRUE, sig |-> FALSE, id |-> 1, exp |-> MaxTime + 1]
Signed == { [wellFormed |-> TRUE, sig |-> TRUE, id |-> i, exp |-> MaxTime + 1] : i \in UserIds }
            \cup { [wellFormed |-> TRUE, sig |-> TRUE, id |-> 1, exp |-> 1] }

Headers ==
    { [scheme |-> "none", token |-> Garbage], [scheme |-> "Basic", token |-> Garbage] }
    \cup { [scheme |-> "Bearer", token |-> t] : t \in {Garbage, Forged} \cup Signed }

ProfileBodies ==
    { [ firstName |-> "Zoe", lastName |-> "Ray", phone |-> "555", businessName |-> "Stud" ],
      [ firstName |-> "Zoe", lastName |-> "undefined", phone |-> "undefined",
        businessName |-> "undefined" ],
      [ firstName |-> "Zoe", lastName |-> "Ray", phone |-> "555", businessName |-> "Stud",
        password |-> "Hacked12345", passwordHash |-> "x", isVerified |-> TRUE,
        verificationToken |-> "tok1", resetPasswordToken |-> "tok1",
        resetPasswordExpires |-> << MaxTime + 1 >>, email |-> "eve@example.com",
        userType |-> "admin", id |-> MaxUsers + 1 ] }

ChangeBodies ==
    { [currentPassword |-> "Password123", newPassword |-> "Secret4567"],
      [currentPassword |-> "Password123", newPassword |-> "short"],
      [currentPassword |-> "Secret4567", newPassword |-> "Password123"],
      [currentPassword |-> "", newPassword |-> "Secret4567"] }

----------------------------------------------------------------------------
(* Responses *)

NoResp == [op |-> "none"]
Idle == [pc |-> "idle"]

\* res.status(status).json({message, user, token}) for operation op; req is
\* the part of the request the code has read by then
Res(op, req, status, message, user, token) ==
    [ op |-> op, req |-> req, status |-> status, message |-> message,
      user |-> user, token |-> token, mail |-> <<>> ]

\* the response authMiddleware ends a request with: the route's handler is not called
Rejected(header, a) ==
    Res("authMiddleware", [header |-> header], a.status, a.message, <<>>, <<>>)

\* the response r of a request that handed the mail m to sendEmail
Sent(r, m) == [r EXCEPT !.mail = << m >>]

PasswordMessage == "Password must be at least 8 characters long"

\* the catch block of AuthController.register
registerError(op, req, message) ==
    IF message = "User with this email already exists" THEN Res(op, req, 409, message, <<>>, <<>>)
    ELSE IF message = PasswordMessage THEN Res(op, req, 400, message, <<>>, <<>>)
    ELSE Res(op, req, 500, "Failed to register user", <<>>, <<>>)

\* the catch block of AuthController.login
loginError(op, req, message) ==
    IF message \in {"Invalid email or password", "Please verify your email before logging in"}
    THEN Res(op, req, 401, message, <<>>, <<>>)
    ELSE Res(op, req, 500, "Failed to login", <<>>, <<>>)

\* a catch block of resetPassword that knows the token error alone
resetErrorTokenOnly(op, req, message) ==
    IF message = "Invalid or expired reset token"
    THEN Res(op, req, 400, message, <<>>, <<>>)
    ELSE Res(op, req, 500, "Failed to reset password", <<>>, <<>>)

\* the catch block of AuthController.resetPassword
resetError(op, req, message) ==
    IF message \in {"Invalid or expired reset token", PasswordMessage}
    THEN Res(op, req, 400, message, <<>>, <<>>)
    ELSE Res(op, req, 500, "Failed to reset password", <<>>, <<>>)

Bump(f, t) == [f EXCEPT ![t] = IF @ < 2 THEN @ + 1 ELSE @]

----------------------------------------------------------------------------
(* controllers/authController.js *)

\* POST /auth/register, up to the await of the INSERT
RegisterBegin(p, body) ==
    /\ resp = NoResp
    /\ inflight[p] = Idle
    /\ IF Falsy(body.email) \/ Falsy(body.password) \/ Falsy(body.firstName)
          \/ Falsy(body.lastName)
       THEN /\ resp' = Res("register", body, 400, "Missing required fields", <<>>, <<>>)
            /\ UNCHANGED <<inflight, nextId, nextTok>>
       ELSE LET d == registerUserDraft(users, body, nextId, Tok(nextTok))
            IN  IF d.error # ""
                THEN /\ resp' = registerError("register", body, d.error)
                     /\ UNCHANGED <<inflight, nextId, nextTok>>
                ELSE /\ nextId <= MaxUsers
                     /\ nextTok <= MaxTokens
                     /\ inflight' = [inflight EXCEPT
                                       ![p] = [pc |-> "register", req |-> body, user |-> d.user]]
                     /\ nextId' = nextId + 1
                     /\ nextTok' = nextTok + 1
                     /\ UNCHANGED resp
    /\ UNCHANGED <<users, now, verifyWins, resetWins>>
    /\ UNCHANGED migVars
    /\ UNCHANGED clientVars

\* POST /auth/register, from the INSERT on: userRepository.create, the
\* verification mail (which may fail), the response
RegisterInsert(p) ==
    /\ resp = NoResp
    /\ inflight[p].pc = "register"
    /\ LET req == inflight[p].req
           row == InsertRow(inflight[p].user)
           saved == User(mapDbUserToModel(row), 0)
       IN  IF InsertViolates(users, row)
           THEN /\ resp' = registerError("register", req, "duplicate key value")
                /\ UNCHANGED users
           ELSE /\ users' = (row.id :> row) @@ users
                /\ \E mailOk \in BOOLEAN :
                      IF mailOk
                      THEN resp' = Sent(Res("register", req, 201,
                                            "User registered successfully. Please check your email to verify your account.",
                                            << toJSON(saved) >>, <<>>),
                                        [to |-> saved.email, kind |-> "verify",
                                         token |-> saved.verificationToken])
                      ELSE resp' = registerError("register", req, "mail transport failed")
    /\ inflight' = [inflight EXCEPT ![p] = Idle]
    /\ UNCHANGED <<nextId, nextTok, now, verifyWins, resetWins>>
    /\ UNCHANGED migVars
    /\ UNCHANGED clientVars

\* POST /auth/login
Login(body) ==
    /\ resp = NoResp
    /\ IF Falsy(body.email) \/ Falsy(body.password)
       THEN resp' = Res("login", body, 400, "Email and password are required", <<>>, <<>>)
       ELSE LET r == loginUser(users, body.email, body.password)
            IN  IF r.error # ""
                THEN resp' = loginError("login", body, r.error)
                ELSE resp' = Res("login", body, 200, "Login successful",
                                 << r.user >>, << r.token >>)
    /\ UNCHANGED <<users, nextId, nextTok, now, inflight, verifyWins, resetWins>>
    /\ UNCHANGED migVars
    /\ UNCHANGED clientVars

\* GET /auth/verify/:token
VerifyEmail(token) ==
    /\ resp = NoResp
    /\ IF Falsy(token)
       THEN /\ resp' = Res("verify", token, 400, "Verification token is required", <<>>, <<>>)
            /\ UNCHANGED <<users, verifyWins>>
       ELSE LET user == verifyEmailResult(users, token)
            IN  /\ users' = verifyEmailTable(users, token)
                /\ IF user = <<>>
                   THEN /\ resp' = Res("verify", token, 400,
                                       "Invalid or expired verification token", <<>>, <<>>)
                        /\ UNCHANGED verifyWins
                   ELSE /\ resp' = Res("verify", token, 200, "Email verified successfully",
                                       << toJSON(user[1]) >>, <<>>)
                        /\ verifyWins' = Bump(verifyWins, token)
    /\ UNCHANGED <<nextId, nextTok, now, inflight, resetWins>>
    /\ UNCHANGED migVars
    /\ UNCHANGED clientVars

\* POST /auth/forgot-password.  The lookup reads only the id and the email of
\* the row, which no operation changes, so the lookup and the UPDATE are one step.
RequestPasswordReset(body) ==
    /\ resp = NoResp
    /\ IF Falsy(body.email)
       THEN /\ resp' = Res("forgot", body, 400, "Email is required", <<>>, <<>>)
            /\ UNCHANGED <<users, nextTok>>
       ELSE LET found == findByEmail(users, body.email)
                ok == Res("forgot", body, 200,
                          "If your email exists in our system, you will receive a password reset link",
                          <<>>, <<>>)
                failed == Res("forgot", body, 500,
                              "Failed to process password reset request", <<>>, <<>>)
            IN  IF found = <<>>
                THEN /\ resp' = ok
                     /\ UNCHANGED <<users, nextTok>>
                ELSE /\ nextTok <= MaxTokens
                     /\ nextTok' = nextTok + 1
                     /\ LET updates == requestResetUpdates(Tok(nextTok))
                        IN  IF updateThrows(users, found[1].id, updates)
                            THEN /\ resp' = failed
                                 /\ UNCHANGED users
                            ELSE /\ users' = update(users, found[1].id, updates)
                                 /\ \E mailOk \in BOOLEAN :
                                       IF mailOk
                                       THEN resp' = Sent(ok, [to |-> found[1].email,
                                                              kind |-> "reset",
                                                              token |-> Tok(nextTok)])
                                       ELSE resp' = failed
    /\ UNCHANGED <<nextId, now, inflight, verifyWins, resetWins>>
    /\ UNCHANGED migVars
    /\ UNCHANGED clientVars

\* POST /auth/reset-password, up to the await of the UPDATE: the SELECT, the
\* password check, the hashing
ResetSelect(p, body) ==
    /\ resp = NoResp
    /\ inflight[p] = Idle
    /\ IF Falsy(body.token) \/ Falsy(body.password)
       THEN /\ resp' = Res("reset", body, 400, "Token and password are required", <<>>, <<>>)
            /\ UNCHANGED inflight
       ELSE LET r == resetPasswordLookup(users, body.token, body.password)
            IN  IF r.error # ""
                THEN /\ resp' = resetError("reset", body, r.error)
                     /\ UNCHANGED inflight
                ELSE /\ inflight' = [inflight EXCEPT
                                       ![p] = [pc |-> "reset", req |-> body, userId |-> r.userId,
                                               passwordHash |-> r.passwordHash]]
                     /\ UNCHANGED resp
    /\ UNCHANGED <<users, nextId, nextTok, now, verifyWins, resetWins>>
    /\ UNCHANGED migVars
    /\ UNCHANGED clientVars

\* POST /auth/reset-password, from the UPDATE on
ResetUpdate(p) ==
    /\ resp = NoResp
    /\ inflight[p].pc = "reset"
    /\ LET req == inflight[p].req
           updates == resetPasswordUpdates(inflight[p].passwordHash)
       IN  IF updateThrows(users, inflight[p].userId, updates)
           THEN /\ resp' = resetError("reset", req, "update failed")
                /\ UNCHANGED <<users, resetWins>>
           ELSE /\ users' = update(users, inflight[p].userId, updates)
                /\ resp' = Res("reset", req, 200, "Password reset successfully", <<>>, <<>>)
                /\ resetWins' = Bump(resetWins, req.token)
    /\ inflight' = [inflight EXCEPT ![p] = Idle]
    /\ UNCHANGED <<nextId, nextTok, now, verifyWins>>
    /\ UNCHANGED migVars
    /\ UNCHANGED clientVars

----------------------------------------------------------------------------
(* controllers/userController.js behind routes/userRoutes.js *)

\* updateProfile that hands req.body on as it came
profileFieldsWholeBody(body) == body

\* const { firstName, lastName, phone, businessName } = req.body
profileFields(body) ==
    [k \in {"firstName", "lastName", "phone", "businessName"} |-> Str(body, k)]

\* GET /users/me: authMiddleware, then getCurrentUser
GetCurrentUser(header) ==
    /\ resp = NoResp
    /\ LET a == authMiddleware(users, header)
       IN  IF ~a.next
           THEN resp' = Rejected(header, a)
           ELSE LET found == findById(users, a.user.id)
                IN  IF found = <<>>
                    THEN resp' = Res("me", [header |-> header], 404, "User not found",
                                     <<>>, <<>>)
                    ELSE resp' = Res("me", [header |-> header], 200, "",
                                     << toJSON(found[1]) >>, <<>>)
    /\ UNCHANGED <<users, nextId, nextTok, now, inflight, verifyWins, resetWins>>
    /\ UNCHANGED migVars
    /\ UNCHANGED clientVars

\* PUT /users/me: authMiddleware, then updateProfile
UpdateProfile(header, body) ==
    /\ resp = NoResp
    /\ LET a == authMiddleware(users, header)
           req == [header |-> header, body |-> body]
       IN  IF ~a.next
           THEN /\ resp' = Rejected(header, a)
                /\ UNCHANGED users
           ELSE LET updates == safeUpdates(profileFields(body))
                IN  IF updateThrows(users, a.user.id, updates)
                    THEN /\ resp' = Res("profile", req, 500, "Failed to update profile",
                                        <<>>, <<>>)
                         /\ UNCHANGED users
                    ELSE /\ users' = update(users, a.user.id, updates)
                         /\ resp' = Res("profile", req, 200, "Profile updated successfully",
                                        << toJSON(User(mapDbUserToModel(
                                               update(users, a.user.id, updates)[a.user.id]),
                                               0)) >>, <<>>)
    /\ UNCHANGED <<nextId, nextTok, now, inflight, verifyWins, resetWins>>
    /\ UNCHANGED migVars
    /\ UNCHANGED clientVars

\* POST /users/change-password: authMiddleware, then changePassword
ChangePassword(header, body) ==
    /\ resp = NoResp
    /\ LET a == authMiddleware(users, header)
           req == [header |-> header, body |-> body]
       IN  IF ~a.next
           THEN /\ resp' = Rejected(header, a)
                /\ UNCHANGED users
           ELSE IF Falsy(body.currentPassword) \/ Falsy(body.newPassword)
           THEN /\ resp' = Res("change", req, 400, "Current and new password are required",
                               <<>>, <<>>)
                /\ UNCHANGED users
           ELSE LET found == findById(users, a.user.id)
                    updates == changePasswordUpdates(bcryptHash(body.newPassword))
                IN  IF found = <<>>
                    THEN /\ resp' = Res("change", req, 404, "User not found", <<>>, <<>>)
                         /\ UNCHANGED users
                    ELSE IF ~verifyPassword(found[1], body.currentPassword)
                    THEN /\ resp' = Res("change", req, 401, "Current password is incorrect",
                                        <<>>, <<>>)
                         /\ UNCHANGED users
                    ELSE IF validatePasswordThrows(body.newPassword)
                    THEN /\ resp' = Res("change", req, 400, PasswordMessage, <<>>, <<>>)
                         /\ UNCHANGED users
                    ELSE IF updateThrows(users, a.user.id, updates)
                    THEN /\ resp' = Res("change", req, 500, "Failed to change password",
                                        <<>>, <<>>)
                         /\ UNCHANGED users
                    ELSE /\ users' = update(users, a.user.id, updates)
                         /\ resp' = Res("change", req, 200, "Password changed successfully",
                                        <<>>, <<>>)
    /\ UNCHANGED <<nextId, nextTok, now, inflight, verifyWins, resetWins>>
    /\ UNCHANGED migVars
    /\ UNCHANGED clientVars

\* GET /users/:userId
GetUserById(userId) ==
    /\ resp = NoResp
    /\ LET found == findById(users, userId)
       IN  IF found = <<>>
           THEN resp' = Res("public", userId, 404, "User not found", <<>>, <<>>)
           ELSE resp' = Res("public", userId, 200, "",
                            << [ id |-> found[1].id, firstName |-> found[1].firstName,
                                 lastName |-> found[1].lastName,
                                 businessName |-> found[1].businessName,
                                 userType |-> found[1].userType ] >>, <<>>)
    /\ UNCHANGED <<users, nextId, nextTok, now, inflight, verifyWins, resetWins>>
    /\ UNCHANGED migVars
    /\ UNCHANGED clientVars

----------------------------------------------------------------------------
(* The environment *)

\* time passes
Tick ==
    /\ resp = NoResp
    /\ now < MaxTime
    /\ now' = now + 1
    /\ UNCHANGED <<users, nextId, nextTok, inflight, resp, verifyWins, resetWins>>
    /\ UNCHANGED migVars
    /\ UNCHANGED clientVars

\* the response written reaches the client
Deliver ==
    /\ resp # NoResp
    /\ resp' = NoResp
    /\ UNCHANGED <<users, nextId, nextTok, now, inflight, verifyWins, resetWins>>
    /\ UNCHANGED migVars
    /\ UNCHANGED clientVars

----------------------------------------------------------------------------
(* utils/runMigrations.js *)

\* a file name is the sequence of its characters, here digits: "001", "002"
\* and "01"
FileNames == { <<0, 0, 1>>, <<0, 0, 2>>, <<0, 1>> }

\* what the migrations directory holds besides migrations
OtherEntries == { [name |-> <<0, 0, 0>>, ext |-> "md"] }

\* a < b in the order of Array.prototype.sort(): by code units, a proper
\* prefix first
RECURSIVE LexLess(_, _)
LexLess(a, b) ==
    IF a = <<>> THEN b # <<>>
    ELSE IF b = <<>> THEN FALSE
    ELSE IF a[1] # b[1] THEN a[1] < b[1]
    ELSE LexLess(Tail(a), Tail(b))

\* a sort that puts the greatest name first
RECURSIVE SortFilesDescending(_)
SortFilesDescending(S) ==
    IF S = {} THEN <<>>
    ELSE LET m == CHOOSE x \in S : \A y \in S : x = y \/ LexLess(y, x)
         IN  << m >> \o SortFilesDescending(S \ {m})

\* files.sort()
RECURSIVE SortFiles(_)
SortFiles(S) ==
    IF S = {} THEN <<>>
    ELSE LET m == CHOOSE x \in S : \A y \in S : x = y \/ LexLess(x, y)
         IN  << m >> \o SortFiles(S \ {m})

\* a reverse() that leaves the array as it is
ReverseKeepsOrder(seq) == seq

\* migrationFiles.reverse()
Reverse(seq) == [i \in 1..Len(seq) |-> seq[Len(seq) + 1 - i]]

\* fs.readdirSync(migrationsDir).filter(file => file.endsWith('.js')).sort(),
\* reversed for down; the names are the file names without '.js'
migrationFiles(dir, down) ==
    LET sorted == SortFiles({e.name : e \in {x \in dir : x.ext = "js"}})
    IN  IF down THEN Reverse(sorted) ELSE sorted

\* a migration file is added to the directory between two runs
AddMigrationFile(name) ==
    /\ migRun.pc # "loop"
    /\ [name |-> name, ext |-> "js"] \notin migFiles
    /\ migFiles' = migFiles \cup { [name |-> name, ext |-> "js"] }
    /\ UNCHANGED <<migTable, migRun>>
    /\ UNCHANGED vars
    /\ UNCHANGED clientVars

\* runMigrations(down) up to the loop: CREATE TABLE IF NOT EXISTS migrations,
\* the files in order, SELECT name FROM migrations
StartMigrations(down) ==
    /\ migRun.pc # "loop"
    /\ migRun' = [ pc |-> "loop", down |-> down,
                   files |-> migrationFiles(migFiles, down),
                   todo |-> migrationFiles(migFiles, down),
                   executed |-> migTable, log |-> <<>> ]
    /\ UNCHANGED <<migFiles, migTable>>
    /\ UNCHANGED vars
    /\ UNCHANGED clientVars

\* one turn of the loop: the migration is skipped, or its up() or down() runs
\* and its record is inserted or deleted; when up() or down() throws, the
\* catch block ends the process with exit code 1
MigrateOne ==
    /\ migRun.pc = "loop"
    /\ migRun.todo # <<>>
    /\ LET name == Head(migRun.todo)
           runs == IF migRun.down THEN name \in migRun.executed
                                 ELSE name \notin migRun.executed
       IN  IF ~runs
           THEN /\ migRun' = [migRun EXCEPT !.todo = Tail(@)]
                /\ UNCHANGED migTable
           ELSE \E ok \in BOOLEAN :
                   IF ok
                   THEN /\ migTable' = IF migRun.down THEN migTable \ {name}
                                                     ELSE migTable \cup {name}
                        /\ migRun' = [migRun EXCEPT
                                        !.todo = Tail(@),
                                        !.log = Append(@, [name |-> name,
                                                           down |-> migRun.down])]
                   ELSE /\ migRun' = [migRun EXCEPT !.pc = "failed"]
                        /\ UNCHANGED migTable
    /\ UNCHANGED migFiles
    /\ UNCHANGED vars
    /\ UNCHANGED clientVars

\* the loop is over: 'All migrations completed successfully', pool.end()
FinishMigrations ==
    /\ migRun.pc = "loop"
    /\ migRun.todo = <<>>
    /\ migRun' = [migRun EXCEPT !.pc = "done"]
    /\ UNCHANGED <<migFiles, migTable>>
    /\ UNCHANGED vars
    /\ UNCHANGED clientVars

\* no migration has run: the directory holds no migration yet
MigrationsIdle ==
    /\ migFiles = OtherEntries
    /\ migTable = {}
    /\ migRun = [pc |-> "idle"]

----------------------------------------------------------------------------
(* frontend: context/AuthContext.jsx, components/auth/Login.jsx,           *)
(* components/layout/PrivateRoute                                          *)

\* response.data.token of a successful login
SessionTokens == {"jwtA", "jwtB"}

\* response.data.user of a successful login or profile update
ClientUsers == { [id |-> 1, firstName |-> "Alice"],
                 [id |-> 1, firstName |-> "Alicia"] }

\* err.response?.data?.message of a failed request; "undefined" when the
\* request had no response
ErrorBodies == {"undefined", "Server message"}

\* JSON.stringify(value)
JSONstringify(value) ==
    "{\"id\":" \o ToString(value.id)
        \o ",\"firstName\":\"" \o value.firstName \o "\"}"

\* JSON.parse(text)
JSONparse(text) == CHOOSE value \in ClientUsers : JSONstringify(value) = text

\* the state of a freshly constructed AuthProvider; user is <<>> for null
\* and << object >> otherwise
InitialAuthState ==
    [user |-> <<>>, token |-> "NULL", loading |-> TRUE, error |-> "NULL"]

\* localStorage with neither 'token' nor 'user'
EmptyStorage == [token |-> "NULL", user |-> "NULL"]

\* what the function that ran last returned; NoRet when the last step
\* returned nothing to a caller
Ret(fn, success) == [fn |-> fn, success |-> success]
NoRet == Ret("none", FALSE)

\* err.response?.data?.message || fallback
errorMessage(message, fallback) == IF Falsy(message) THEN fallback ELSE message

\* isAuthenticated: !!token
isAuthenticated(st) == ~Falsy(st.token)

\* initializeAuth: the stored session is taken over when both items are there
initializeAuthState(st, store) ==
    IF ~Falsy(store.token) /\ ~Falsy(store.user)
    THEN [st EXCEPT !.token = store.token, !.user = << JSONparse(store.user) >>,
                    !.loading = FALSE]
    ELSE [st EXCEPT !.loading = FALSE]

\* login, the try block after the response and the finally block
loginThen(st, newToken, userData) ==
    [st EXCEPT !.token = newToken, !.user = << userData >>, !.loading = FALSE]

\* a catch block of login that also drops the session
loginCatchDropsSession(st, message) ==
    [st EXCEPT !.token = "NULL", !.user = <<>>,
               !.error = errorMessage(message,
                            "Login failed. Please check your credentials."),
               !.loading = FALSE]

\* login, the catch block and the finally block
loginCatch(st, message) ==
    [st EXCEPT !.error = errorMessage(message,
                            "Login failed. Please check your credentials."),
               !.loading = FALSE]

\* PrivateRoute: the element it returns
PrivateRoute(st) ==
    IF st.loading THEN "Spinner"
    ELSE IF ~isAuthenticated(st) THEN "Navigate"
    ELSE "Outlet"

\* the call of name fn suspended on its request, if there is one
CallOf(fn) == {c \in calls : c.fn = fn}

\* the page is loaded: AuthProvider is constructed, every pending call of
\* the old page is gone
Reload ==
    /\ mounted
    /\ authState' = InitialAuthState
    /\ mounted' = FALSE
    /\ calls' = {}
    /\ ret' = NoRet
    /\ UNCHANGED <<localStorage, route>>
    /\ UNCHANGED vars
    /\ UNCHANGED migVars

\* useEffect(() => initializeAuth(), [])
initializeAuth ==
    /\ ~mounted
    /\ mounted' = TRUE
    /\ authState' = initializeAuthState(authState, localStorage)
    /\ ret' = Ret("initializeAuth", TRUE)
    /\ UNCHANGED <<localStorage, calls, route>>
    /\ UNCHANGED vars
    /\ UNCHANGED migVars

\* an async function of the provider up to its await: setLoading(true),
\* setError(null), the request is sent with the token of this render
ProviderCall(fn) ==
    /\ mounted
    /\ CallOf(fn) = {}
    /\ authState' = [authState EXCEPT !.loading = TRUE, !.error = "NULL"]
    /\ calls' = calls \cup { [fn |-> fn, bearer |-> authState.token] }
    /\ ret' = NoRet
    /\ UNCHANGED <<localStorage, mounted, route>>
    /\ UNCHANGED vars
    /\ UNCHANGED migVars

\* login(email, password) up to await axios.post
loginCall == ProviderCall("login")

\* login after the await: the session is saved to state and localStorage,
\* or the error is kept
loginReturn ==
    /\ CallOf("login") # {}
    /\ calls' = calls \ CallOf("login")
    /\ \/ \E newToken \in SessionTokens, userData \in ClientUsers :
            /\ authState' = loginThen(authState, newToken, userData)
            /\ localStorage' = [token |-> newToken,
                                user |-> JSONstringify(userData)]
            /\ ret' = Ret("login", TRUE)
       \/ \E message \in ErrorBodies :
            /\ authState' = loginCatch(authState, message)
            /\ localStorage' = localStorage
            /\ ret' = Ret("login", FALSE)
    /\ UNCHANGED <<mounted, route>>
    /\ UNCHANGED vars
    /\ UNCHANGED migVars

\* register(userData) up to await axios.post
registerCall == ProviderCall("register")

\* register after the await
registerReturn ==
    /\ CallOf("register") # {}
    /\ calls' = calls \ CallOf("register")
    /\ \/ /\ authState' = [authState EXCEPT !.loading = FALSE]
          /\ ret' = Ret("register", TRUE)
       \/ \E message \in ErrorBodies :
            /\ authState' = [authState EXCEPT
                  !.error = errorMessage(message,
                                "Registration failed. Please try again."),
                  !.loading = FALSE]
            /\ ret' = Ret("register", FALSE)
    /\ UNCHANGED <<localStorage, mounted, route>>
    /\ UNCHANGED vars
    /\ UNCHANGED migVars

\* logout()
logout ==
    /\ mounted
    /\ authState' = [authState EXCEPT !.token = "NULL", !.user = <<>>]
    /\ localStorage' = EmptyStorage
    /\ ret' = Ret("logout", TRUE)
    /\ UNCHANGED <<mounted, calls, route>>
    /\ UNCHANGED vars
    /\ UNCHANGED migVars

\* updateProfile(userData) up to await axios.put
updateProfileCall == ProviderCall("updateProfile")

\* updateProfile after the await; the server answers 200 only to a request
\* that carried a token
updateProfileReturn ==
    /\ CallOf("updateProfile") # {}
    /\ calls' = calls \ CallOf("updateProfile")
    /\ \/ \E c \in CallOf("updateProfile"), updatedUser \in ClientUsers :
            /\ ~Falsy(c.bearer)
            /\ authState' = [authState EXCEPT !.user = << updatedUser >>,
                                              !.loading = FALSE]
            /\ localStorage' = [localStorage EXCEPT
                                  !.user = JSONstringify(updatedUser)]
            /\ ret' = Ret("updateProfile", TRUE)
       \/ \E message \in ErrorBodies :
            /\ authState' = [authState EXCEPT
                  !.error = errorMessage(message,
                                "Failed to update profile. Please try again."),
                  !.loading = FALSE]
            /\ localStorage' = localStorage
            /\ ret' = Ret("updateProfile", FALSE)
    /\ UNCHANGED <<mounted, route>>
    /\ UNCHANGED vars
    /\ UNCHANGED migVars

\* Login.handleSubmit up to await axios.post; the form's own loading and
\* error are local to the form and left out
handleSubmitCall ==
    /\ mounted
    /\ route = "/login"
    /\ CallOf("handleSubmit") = {}
    /\ calls' = calls \cup { [fn |-> "handleSubmit", bearer |-> authState.token] }
    /\ ret' = NoRet
    /\ UNCHANGED <<authState, localStorage, mounted, route>>
    /\ UNCHANGED vars
    /\ UNCHANGED migVars

\* Login.handleSubmit after the await: the session goes to localStorage and
\* the form navigates to /dashboard, or the form shows the error
handleSubmitReturn ==
    /\ CallOf("handleSubmit") # {}
    /\ calls' = calls \ CallOf("handleSubmit")
    /\ \/ \E token \in SessionTokens, user \in ClientUsers :
            /\ localStorage' = [token |-> token, user |-> JSONstringify(user)]
            /\ route' = "/dashboard"
            /\ ret' = Ret("handleSubmit", TRUE)
       \/ /\ ret' = Ret("handleSubmit", FALSE)
          /\ UNCHANGED <<localStorage, route>>
    /\ UNCHANGED <<authState, mounted>>
    /\ UNCHANGED vars
    /\ UNCHANGED migVars

\* <Navigate to="/login" /> returned by the PrivateRoute around /dashboard
NavigateToLogin ==
    /\ mounted
    /\ route = "/dashboard"
    /\ PrivateRoute(authState) = "Navigate"
    /\ route' = "/login"
    /\ ret' = NoRet
    /\ UNCHANGED <<authState, localStorage, mounted, calls>>
    /\ UNCHANGED vars
    /\ UNCHANGED migVars

\* the page has just been opened at /login with an empty localStorage
ClientIdle ==
    /\ authState = InitialAuthState
    /\ localStorage = EmptyStorage
    /\ mounted = FALSE
    /\ calls = {}
    /\ ret = NoRet
    /\ route = "/login"

----------------------------------------------------------------------------
(* The specification *)

Init ==
    /\ users = <<>>
    /\ nextId = 1
    /\ nextTok = 1
    /\ now = 0
    /\ inflight = [p \in Procs |-> Idle]
    /\ resp = NoResp
    /\ verifyWins = [t \in AllTokens |-> 0]
    /\ resetWins = [t \in AllTokens |-> 0]
    /\ MigrationsIdle
    /\ ClientIdle

Next ==
    \/ \E p \in Procs, body \in RegisterBodies : RegisterBegin(p, body)
    \/ \E p \in Procs : RegisterInsert(p)
    \/ \E body \in LoginBodies : Login(body)
    \/ \E token \in AllTokens : VerifyEmail(token)
    \/ \E body \in ForgotBodies : RequestPasswordReset(body)
    \/ \E p \in Procs, body \in ResetBodies : ResetSelect(p, body)
    \/ \E p \in Procs : ResetUpdate(p)
    \/ \E header \in Headers : GetCurrentUser(header)
    \/ \E header \in Headers, body \in ProfileBodies : UpdateProfile(header, body)
    \/ \E header \in Headers, body \in ChangeBodies : ChangePassword(header, body)
    \/ \E userId \in UserIds : GetUserById(userId)
    \/ Tick
    \/ Deliver

Spec == Init /\ [][Next]_vars

\* the migration runner, on a database no request reaches yet
MigrationNext ==
    \/ \E name \in FileNames : AddMigrationFile(name)
    \/ \E down \in BOOLEAN : StartMigrations(down)
    \/ MigrateOne
    \/ FinishMigrations

MigrationSpec == Init /\ [][MigrationNext]_migVars

\* the browser, with the responses of the server as inputs
ClientNext ==
    \/ Reload
    \/ initializeAuth
    \/ loginCall
    \/ loginReturn
    \/ registerCall
    \/ registerReturn
    \/ logout
    \/ updateProfileCall
    \/ updateProfileReturn
    \/ handleSubmitCall
    \/ handleSubmitReturn
    \/ NavigateToLogin

ClientSpec == Init /\ [][ClientNext]_clientVars

----------------------------------------------------------------------------
(* Properties *)

\* this step wrote the response of operation op
Responds(op) == resp = NoResp /\ resp' # NoResp /\ resp'.op = op

\* the stored rows with this email
RowsOf(email) == {r \in Rows(users) : r.email = email}

\* C1: no two stored users have the same email, and a Register call whose
\* email already belongs to a stored user, verified or not, is answered with
\* 409 Conflict and creates no user: it neither inserts a row nor goes on to
\* the INSERT.
C1_EmailUnique ==
    /\ [](\A i, j \in DOMAIN users : i # j => users[i].email # users[j].email)
    /\ [][ /\ (Responds("register") /\ inflight' = inflight /\ RowsOf(resp'.req.email) # {})
              => (resp'.status = 409 /\ users' = users)
           /\ \A p \in Procs :
                 (inflight[p] = Idle /\ inflight'[p].pc = "register")
                 => RowsOf(inflight'[p].req.email) = {} ]_vars

\* C1 witness: a Register for the email of a stored, verified user was answered 409
C1_Witness ==
    /\ resp.op = "register"
    /\ resp.status = 409
    /\ \E r \in RowsOf(resp.req.email) : r.is_verified

\* C2: no response body holds a passwordHash, verificationToken or
\* resetPasswordToken property, whatever operations preceded it.
C2_NoSecretsInResponse ==
    (resp # NoResp /\ resp.user # <<>>) => (DOMAIN resp.user[1]) \cap SecretFields = {}

\* C2 witness: a registration answered 201 with the body of a user that holds
\* a verification token in the store
C2_Witness ==
    /\ resp.op = "register"
    /\ resp.status = 201
    /\ resp.user # <<>>
    /\ \E r \in RowsOf(resp.user[1].email) : r.verification_token # "NULL"

\* the stored password of row r is password
HasPassword(r, password) == r.password_hash = bcryptHash(password)

\* C3: Login never answers with a session token for a user whose stored
\* is_verified is false, for any password and after any operations.
C3_NoLoginUnverified ==
    (resp.op = "login" /\ resp.token # <<>>)
    => (resp.status = 200 /\ \E r \in RowsOf(resp.req.email) : r.is_verified)

\* C3 witness: Login with the correct password of an unverified account was
\* answered without a token
C3_Witness ==
    /\ resp.op = "login"
    /\ resp.token = <<>>
    /\ \E r \in RowsOf(resp.req.email) : ~r.is_verified /\ HasPassword(r, resp.req.password)

\* C4: after Register(email, pw) and VerifyEmail with the token of that
\* registration, Login(email, pw) is answered 200 with a session token whose
\* id claim is the id of the registered user.
C4_RoundTrip ==
    ( /\ resp.op = "login"
      /\ \A t \in AllTokens : resetWins[t] = 0
      /\ \E r \in RowsOf(resp.req.email) : r.is_verified /\ HasPassword(r, resp.req.password) )
    => ( /\ resp.status = 200
         /\ resp.token # <<>>
         /\ \A r \in RowsOf(resp.req.email) : resp.token[1].id = r.id )

\* C5: Login on an unverified account is answered EmailNotVerified when the
\* password is the account's password and InvalidCredentials when it is not.
C5_UnverifiedLogin ==
    resp.op = "login"
    => \A r \in RowsOf(resp.req.email) :
          ~r.is_verified
          => /\ resp.status = 401
             /\ resp.message = IF HasPassword(r, resp.req.password)
                               THEN "Please verify your email before logging in"
                               ELSE "Invalid email or password"

\* the header carries a well-formed, correctly signed, unexpired session token
\* that names a stored, verified user
HeaderValid(h) ==
    /\ h.scheme = "Bearer"
    /\ h.token.wellFormed
    /\ h.token.sig
    /\ now < h.token.exp
    /\ h.token.id \in DOMAIN users
    /\ users[h.token.id].is_verified

\* C6: a request with Authorization: Bearer T, T an unexpired session token
\* for a user who exists and is verified, passes authMiddleware, and
\* GET /users/me then answers 200 with that user's email and no passwordHash.
C6_SessionAccepted ==
    /\ resp.op = "authMiddleware" => ~HeaderValid(resp.req.header)
    /\ resp.op = "me"
       => /\ resp.status = 200
          /\ resp.user # <<>>
          /\ resp.user[1].email = users[resp.req.header.token.id].email
          /\ "passwordHash" \notin DOMAIN resp.user[1]

\* C7: a handler behind authMiddleware runs only for a Bearer header whose
\* token is well-formed, correctly signed and unexpired and names a stored,
\* verified user; every request authMiddleware ends is answered 401, with
\* "Invalid token" for a bad token and "Token expired" for an expired one.
C7_Guard ==
    /\ resp.op \in {"me", "profile", "change"} => HeaderValid(resp.req.header)
    /\ resp.op = "authMiddleware"
       => LET h == resp.req.header
          IN  /\ resp.status = 401
              /\ resp.user = <<>>
              /\ (h.scheme = "Bearer" /\ ~(h.token.wellFormed /\ h.token.sig))
                 => resp.message = "Invalid token"
              /\ (h.scheme = "Bearer" /\ h.token.wellFormed /\ h.token.sig
                  /\ now >= h.token.exp)
                 => resp.message = "Token expired"

\* C7 witness: a request with a correctly signed, expired token was ended by
\* authMiddleware
C7_Witness ==
    /\ resp.op = "authMiddleware"
    /\ resp.req.header.scheme = "Bearer"
    /\ resp.req.header.token.sig
    /\ resp.req.header.token.wellFormed
    /\ now >= resp.req.header.token.exp
    /\ resp.req.header.token.id \in DOMAIN users

\* C8: for every verification token at most one VerifyEmail call succeeds; the
\* successful call sets is_verified and clears verification_token of the
\* user in the same step, and every later call with that token is answered
\* 400 "Invalid or expired verification token".
C8_VerifyOnce ==
    /\ [](\A t \in AllTokens : verifyWins[t] <= 1)
    /\ [][ Responds("verify")
           => /\ IF resp'.status = 200
                 THEN \E i \in DOMAIN users :
                         /\ users[i].verification_token = resp'.req
                         /\ ~users[i].is_verified
                         /\ users'[i].is_verified
                         /\ users'[i].verification_token = "NULL"
                 ELSE users' = users
              /\ verifyWins[resp'.req] >= 1
                 => /\ resp'.status = 400
                    /\ resp'.message = "Invalid or expired verification token" ]_vars

\* C8 witness: a VerifyEmail call with a token that had already verified a
\* user was answered 400
C8_Witness ==
    /\ resp.op = "verify"
    /\ resp.status = 400
    /\ verifyWins[resp.req] = 1

\* C9: once a ResetPassword call with token t has completed successfully,
\* every ResetPassword call (token and password supplied) made afterwards
\* with t is answered 400 "Invalid or expired reset token", changes no row
\* and does not go on to the UPDATE.
C9_ResetTokenDead ==
    [][ /\ ( /\ Responds("reset")
             /\ inflight' = inflight
             /\ ~Falsy(resp'.req.password)
             /\ resetWins[resp'.req.token] >= 1 )
           => ( /\ resp'.status = 400
                /\ resp'.message = "Invalid or expired reset token"
                /\ users' = users )
        /\ \A p \in Procs :
              (inflight[p] = Idle /\ inflight'[p].pc = "reset")
              => resetWins[inflight'[p].req.token] = 0 ]_vars

\* C9 witness: a ResetPassword call with a token a completed reset had used
\* was answered 400
C9_Witness ==
    /\ resp.op = "reset"
    /\ resp.status = 400
    /\ resp.message = "Invalid or expired reset token"
    /\ ~Falsy(resp.req.password)
    /\ resetWins[resp.req.token] >= 1

\* C10: of the ResetPassword requests that carry the same reset token, also
\* when they run concurrently, at most one replaces password_hash.
C10_ResetOnce == \A t \in AllTokens : resetWins[t] <= 1

\* token t is the stored reset token of a user and its expiry is not later
\* than the current time
ExpiredFor(t) ==
    \E i \in DOMAIN users :
       /\ users[i].reset_password_token = t
       /\ users[i].reset_password_expires # <<>>
       /\ users[i].reset_password_expires[1] <= now

\* C11: a ResetPassword call (token and password supplied) whose token equals
\* a stored reset_password_token with reset_password_expires not later than
\* the current time is answered 400 "Invalid or expired reset token", the
\* answer an unknown token gets, changes no row (password_hash,
\* reset_password_token and reset_password_expires stay) and does not go on
\* to the UPDATE.
C11_ExpiredResetToken ==
    [][ /\ ( /\ Responds("reset")
             /\ inflight' = inflight
             /\ ~Falsy(resp'.req.password)
             /\ ExpiredFor(resp'.req.token) )
           => ( /\ resp'.status = 400
                /\ resp'.message = "Invalid or expired reset token"
                /\ resp' = resetError("reset", resp'.req,
                                      resetPasswordLookup(<<>>, resp'.req.token,
                                                          resp'.req.password).error)
                /\ users' = users )
        /\ \A p \in Procs :
              (inflight[p] = Idle /\ inflight'[p].pc = "reset")
              => ~ExpiredFor(inflight'[p].req.token) ]_vars

\* C11 witness: a ResetPassword call with the stored, expired reset token of a
\* user and an acceptable new password was answered 400
C11_Witness ==
    /\ resp.op = "reset"
    /\ resp.status = 400
    /\ resp.req.password = "Secret4567"
    /\ ExpiredFor(resp.req.token)
    /\ \A t \in AllTokens : resetWins[t] = 0

\* what the client sees of a response: status and JSON body
Body(r) == [status |-> r.status, message |-> r.message, user |-> r.user, token |-> r.token]

\* C12: RequestPasswordReset for a non-empty email that matches no stored
\* user is answered 200 with the generic message, changes no row, draws no
\* token and hands no mail to the transport; and every 200 answer of
\* RequestPasswordReset, for a matching email or not, has that same body.
C12_UnknownEmailReset ==
    [][ Responds("forgot")
        => /\ (~Falsy(resp'.req.email) /\ RowsOf(resp'.req.email) = {})
              => ( /\ resp'.status = 200
                   /\ users' = users
                   /\ nextTok' = nextTok
                   /\ resp'.mail = <<>> )
           /\ resp'.status = 200
              => Body(resp') =
                    [ status |-> 200,
                      message |-> "If your email exists in our system, you will receive a password reset link",
                      user |-> <<>>, token |-> <<>> ] ]_vars

\* C12 witness: with a user stored, a RequestPasswordReset for another email
\* was answered 200
C12_Witness ==
    /\ resp.op = "forgot"
    /\ resp.status = 200
    /\ RowsOf(resp.req.email) = {}
    /\ users # <<>>

\* C13: RequestPasswordReset with a non-empty email is answered 200 whatever
\* happens inside, also when the reset mail of an existing user cannot be sent.
C13_ResetAlwaysSucceeds ==
    (resp.op = "forgot" /\ ~Falsy(resp.req.email)) => resp.status = 200

\* C14: a Register call that has inserted the row of the new user is answered
\* 201 with the sanitized user, also when the verification mail cannot be
\* sent afterwards.
C14_RegisterByPersistence ==
    [][ (Responds("register") /\ users' # users)
        => /\ resp'.status = 201
           /\ resp'.user # <<>>
           /\ resp'.user[1].email = resp'.req.email
           /\ (DOMAIN resp'.user[1]) \cap SecretFields = {} ]_vars

\* the tokens held anywhere in the table
StoredTokens ==
    {users[i].verification_token : i \in DOMAIN users}
    \cup {users[i].reset_password_token : i \in DOMAIN users}

\* C15: every RequestPasswordReset for the email of a stored user replaces
\* the user's reset_password_token by a token never stored before and sets
\* reset_password_expires to one hour after the request, touching nothing
\* else; a user has at most one reset token ResetPassword honours, and a
\* ResetPassword call (token and password supplied) with a token that is no
\* longer the stored one is answered 400 "Invalid or expired reset token"
\* without changing a row or going on to the UPDATE.
C15_FreshResetToken ==
    /\ [](\A i \in DOMAIN users :
             Cardinality({t \in AllTokens : i \in ResetMatches(users, t)}) <= 1)
    /\ [][ /\ Responds("forgot")
              => \A i \in DOMAIN users :
                    IF users[i].email = resp'.req.email
                    THEN /\ users'[i].reset_password_token \in AllTokens \ StoredTokens
                         /\ users'[i].reset_password_expires = << now + ResetTTL >>
                         /\ users'[i] = [users[i] EXCEPT
                                            !.reset_password_token = users'[i].reset_password_token,
                                            !.reset_password_expires = << now + ResetTTL >>]
                    ELSE users'[i] = users[i]
           /\ ( /\ Responds("reset")
                /\ inflight' = inflight
                /\ ~Falsy(resp'.req.password)
                /\ resp'.req.token \notin {users[i].reset_password_token : i \in DOMAIN users} )
              => ( /\ resp'.status = 400
                   /\ resp'.message = "Invalid or expired reset token"
                   /\ users' = users )
           /\ \A p \in Procs :
                 (inflight[p] = Idle /\ inflight'[p].pc = "reset")
                 => users[inflight'[p].userId].reset_password_token = inflight'[p].req.token
         ]_vars

\* C15 witness: the one registered user asked for a reset twice (tok1 is the
\* verification token, tok2 and tok3 the reset tokens), and within the hour a
\* ResetPassword call with the first reset token was answered 400
C15_Witness ==
    /\ resp.op = "reset"
    /\ resp.status = 400
    /\ resp.req = [token |-> Tok(2), password |-> "Secret4567"]
    /\ nextId = 2
    /\ now = 0
    /\ 1 \in DOMAIN users
    /\ users[1].reset_password_token = Tok(3)
    /\ users[1].reset_password_expires = << ResetTTL >>

ProfileColumns == {"first_name", "last_name", "phone", "business_name"}

\* rows a and b differ in profile columns at most
SameButProfile(a, b) == \A c \in Columns \ ProfileColumns : a[c] = b[c]

\* C17: PUT /users/me changes no column of a user other than first_name,
\* last_name, phone and business_name, whatever the body holds: the write the
\* handler issues for a body leaves id, email, password_hash, user_type,
\* is_verified, verification_token, reset_password_token and
\* reset_password_expires of the row as they were, and no PUT /users/me step
\* changes them or adds a row.
C17_ProfileFrame ==
    /\ [](\A i \in DOMAIN users, body \in ProfileBodies :
             SameButProfile(UpdatedRow(users[i], safeUpdates(profileFields(body))), users[i]))
    /\ [][ (\E header \in Headers, body \in ProfileBodies : UpdateProfile(header, body))
           => /\ DOMAIN users' = DOMAIN users
              /\ \A i \in DOMAIN users : SameButProfile(users'[i], users[i]) ]_vars

\* C17 witness: an unverified user with a pending reset token is stored, and
\* the write of PUT /users/me for a body that also names isVerified,
\* passwordHash, email, userType and the token fields moves first_name
C17_Witness ==
    \E i \in DOMAIN users, body \in ProfileBodies :
       /\ {"isVerified", "passwordHash", "email", "userType", "resetPasswordToken"}
             \subseteq DOMAIN body
       /\ ~users[i].is_verified
       /\ users[i].reset_password_token # "NULL"
       /\ UpdatedRow(users[i], safeUpdates(profileFields(body))).first_name = body.firstName
       /\ users[i].first_name # body.firstName

\* C18: a PUT /users/me body that supplies only some of firstName, lastName,
\* phone and businessName is accepted: the write the handler issues for it
\* succeeds, sets the supplied fields and leaves the other profile columns
\* of the row at their previous values.
C18_PartialProfileUpdate ==
    \A i \in DOMAIN users, body \in ProfileBodies :
       LET updates == safeUpdates(profileFields(body))
           after == update(users, i, updates)[i]
       IN  /\ ~updateThrows(users, i, updates)
           /\ \A k \in {"firstName", "lastName", "phone", "businessName"} :
                 after[Snake(k)] = IF Has(body, k) /\ body[k] # "undefined"
                                   THEN body[k] ELSE users[i][Snake(k)]

\* C19: GET /users/:userId is answered, for a stored user, 200 with exactly
\* the stored id, first_name, last_name, business_name and user_type of that
\* user, and for an id that is not stored 404; no header is read.
C19_PublicProfile ==
    resp.op = "public"
    => IF resp.req \in DOMAIN users
       THEN /\ resp.status = 200
            /\ resp.user = << [ id           |-> users[resp.req].id,
                                firstName    |-> users[resp.req].first_name,
                                lastName     |-> users[resp.req].last_name,
                                businessName |-> users[resp.req].business_name,
                                userType     |-> users[resp.req].user_type ] >>
       ELSE resp.status = 404 /\ resp.user = <<>>

C21_LoginNoEnumeration ==
    ( /\ resp.op = "login"
      /\ ~Falsy(resp.req.email)
      /\ ~Falsy(resp.req.password)
      /\ \A r \in RowsOf(resp.req.email) : ~HasPassword(r, resp.req.password) )
    => Body(resp) = [ status |-> 401, message |-> "Invalid email or password",
                      user |-> <<>>, token |-> <<>> ]

\* C21 witness: with a verified user stored, a Login with that user's email
\* and a wrong password was answered 401
C21_Witness ==
    /\ resp.op = "login"
    /\ resp.status = 401
    /\ ~Falsy(resp.req.password)
    /\ \E r \in RowsOf(resp.req.email) : r.is_verified /\ ~HasPassword(r, resp.req.password)
    /\ \E e \in Emails : RowsOf(e) = {}

C23_ChangePassword ==
    [][ \A header \in Headers, body \in ChangeBodies :
           ( /\ ChangePassword(header, body)
             /\ HeaderValid(header)
             /\ ~Falsy(body.currentPassword)
             /\ ~Falsy(body.newPassword) )
           => LET i == header.token.id
              IN  IF HasPassword(users[i], body.currentPassword)
                  THEN ~validatePasswordThrows(body.newPassword)
                       => /\ resp'.status = 200
                          /\ users'[i].password_hash = bcryptHash(body.newPassword)
                  ELSE /\ resp'.status = 401
                       /\ resp'.message = "Current password is incorrect"
                       /\ users' = users ]_vars

\* C24: Register (required fields supplied) with a password of fewer than 8
\* characters and an email no stored user has is answered 400 with the
\* password message, inserts no row, hands no mail to the transport and does
\* not go on to the INSERT.
C24_WeakPasswordRejected ==
    [][ /\ ( /\ Responds("register")
             /\ inflight' = inflight
             /\ ~Falsy(resp'.req.email)
             /\ ~Falsy(resp'.req.password)
             /\ Len(resp'.req.password) < MinPasswordLen
             /\ RowsOf(resp'.req.email) = {} )
           => ( /\ resp'.status = 400
                /\ resp'.message = PasswordMessage
                /\ resp'.user = <<>>
                /\ resp'.mail = <<>>
                /\ users' = users )
        /\ \A p \in Procs :
              (inflight[p] = Idle /\ inflight'[p].pc = "register")
              => Len(inflight'[p].req.password) >= MinPasswordLen ]_vars

\* C24 witness: a Register with the password "short" for an email that is not
\* stored was answered 400, another user being stored
C24_Witness ==
    /\ resp.op = "register"
    /\ resp.status = 400
    /\ resp.req.password = "short"
    /\ ~Falsy(resp.req.email)
    /\ RowsOf(resp.req.email) = {}
    /\ users # <<>>

\* C25: of two Register requests for one email that run concurrently, one
\* inserts the user and the other, which inserts nothing, is answered 409
\* and with no other error.
C25_ConcurrentRegister ==
    /\ [](\A e \in Emails : Cardinality(RowsOf(e)) <= 1)
    /\ [][ \A p \in Procs :
              ( /\ RegisterInsert(p)
                /\ users' = users
                /\ RowsOf(inflight[p].req.email) # {} )
              => resp'.status = 409 ]_vars

\* C26: Login with the email and the current password of a verified user who
\* has a pending (stored, unexpired) reset token is answered 200 with a
\* session token; RequestPasswordReset leaves password_hash and is_verified
\* of the user as they were.
C26_ResetPendingLogin ==
    /\ []( ( /\ resp.op = "login"
             /\ \E r \in RowsOf(resp.req.email) :
                   /\ r.is_verified
                   /\ HasPassword(r, resp.req.password)
                   /\ r.reset_password_token # "NULL"
                   /\ r.reset_password_expires # <<>>
                   /\ r.reset_password_expires[1] > now )
           => (resp.status = 200 /\ resp.token # <<>>) )
    /\ [][ Responds("forgot")
           => \A i \in DOMAIN users :
                 /\ users'[i].password_hash = users[i].password_hash
                 /\ users'[i].is_verified = users[i].is_verified ]_vars

\* C27: in every reachable state each stored user holds a verification_token
\* exactly when is_verified is false.
C27_TokenIffUnverified ==
    \A i \in DOMAIN users : (users[i].verification_token # "NULL") <=> ~users[i].is_verified

\* C27 witness: a verified user without a token and an unverified user with
\* one are stored, the verified one having gone through a password reset
C27_Witness ==
    \E i, j \in DOMAIN users :
       /\ users[i].is_verified
       /\ users[i].verification_token = "NULL"
       /\ users[i].password_hash = bcryptHash("Secret4567")
       /\ ~users[j].is_verified
       /\ users[j].verification_token \in AllTokens

\* C28: in every reachable state reset_password_token and
\* reset_password_expires of a user are both set or both NULL, and a step
\* that changes either of them is a RequestPasswordReset or a ResetPassword.
C28_ResetPairTogether ==
    /\ [](\A i \in DOMAIN users :
             (users[i].reset_password_token = "NULL")
             <=> (users[i].reset_password_expires = <<>>))
    /\ [][ \A i \in DOMAIN users :
              ( \/ users'[i].reset_password_token # users[i].reset_password_token
                \/ users'[i].reset_password_expires # users[i].reset_password_expires )
              => (Responds("forgot") \/ Responds("reset")) ]_vars

\* C28 witness: a ResetPassword with the token RequestPasswordReset had stored
\* for a user has just cleared the token and the expiry of that user
C28_Witness ==
    /\ resp.op = "reset"
    /\ resp.status = 200
    /\ resetWins[resp.req.token] = 1
    /\ \E i \in DOMAIN users :
          /\ users[i].password_hash = bcryptHash(resp.req.password)
          /\ users[i].reset_password_token = "NULL"
          /\ users[i].reset_password_expires = <<>>

\* C29: no step removes a stored user, changes the id of a stored user or
\* takes is_verified of a stored user from true back to false.
C29_LifecycleForward ==
    [][ /\ DOMAIN users \subseteq DOMAIN users'
        /\ \A i \in DOMAIN users :
              /\ users'[i].id = users[i].id
              /\ users[i].is_verified => users'[i].is_verified ]_vars

\* C29 witness: two users are stored and the verified one has since asked for
\* a password reset
C29_Witness ==
    /\ Cardinality(DOMAIN users) = 2
    /\ \E i \in DOMAIN users :
          /\ users[i].id = i
          /\ users[i].is_verified
          /\ users[i].reset_password_token \in AllTokens

\* C30: the user_type of each stored user is buyer, seller or admin, and a
\* Register with another userType stores no user with that value: the row
\* register() inserts for such a body, when it gets as far as the INSERT,
\* holds one of the three.
C30_UserTypeEnum ==
    /\ \A i \in DOMAIN users : users[i].user_type \in {"buyer", "seller", "admin"}
    /\ \A body \in RegisterBodies \cup OddRoleBodies :
          LET d == registerUserDraft(users, body, nextId, Tok(nextTok))
          IN  (~Falsy(body.email) /\ d.error = "")
              => InsertRow(d.user).user_type \in {"buyer", "seller", "admin"}

\* C31: a ResetPassword call with a stored, unexpired reset token and a new
\* password of 1 to 7 characters is answered 400 with the password message,
\* changes no row and does not go on to the UPDATE; the token is left as it
\* was, so the lookup of a ResetPassword with the same token and an
\* acceptable password still passes afterwards.
C31_WeakResetPassword ==
    [][ /\ ( /\ Responds("reset")
             /\ inflight' = inflight
             /\ ~Falsy(resp'.req.password)
             /\ Len(resp'.req.password) < MinPasswordLen
             /\ ResetMatches(users, resp'.req.token) # {} )
           => ( /\ resp'.status = 400
                /\ resp'.message = PasswordMessage
                /\ users' = users
                /\ resetWins' = resetWins
                /\ resetPasswordLookup(users', resp'.req.token, "Secret4567").error = "" )
        /\ \A p \in Procs :
              (inflight[p] = Idle /\ inflight'[p].pc = "reset")
              => Len(inflight'[p].req.password) >= MinPasswordLen ]_vars

\* C31 witness: a ResetPassword with the pending reset token of a user and
\* the password "short" was answered 400, the token still being honoured
C31_Witness ==
    /\ resp.op = "reset"
    /\ resp.status = 400
    /\ resp.message = PasswordMessage
    /\ resp.req.password = "short"
    /\ ResetMatches(users, resp.req.token) # {}
    /\ resetWins[resp.req.token] = 0

\* C32: a stored reset token goes away only by expiring, by a successful
\* ResetPassword with that same token or by a later RequestPasswordReset of
\* the user: the UPDATE of a ResetPassword made with another, older token
\* leaves the token a user holds by then in place.
C32_NewTokenSurvives ==
    [][ \A i \in DOMAIN users :
           ( /\ users[i].reset_password_token # "NULL"
             /\ users'[i].reset_password_token # users[i].reset_password_token )
           => \/ Responds("forgot")
              \/ \E p \in Procs :
                    /\ inflight[p].pc = "reset"
                    /\ inflight'[p] = Idle
                    /\ inflight[p].req.token = users[i].reset_password_token ]_vars

\* C33: a session token of a stored, verified user, unexpired, is accepted by
\* authMiddleware also after the password of that user has been replaced by
\* ResetPassword or ChangePassword.
C33_SessionSurvivesPasswordChange ==
    \A h \in Headers :
       ( /\ HeaderValid(h)
         /\ users[h.token.id].password_hash = bcryptHash("Secret4567") )
       => /\ authMiddleware(users, h).next
          /\ authMiddleware(users, h).user.id = h.token.id

\* the migrations in the directory
JsNames == {e.name : e \in {x \in migFiles : x.ext = "js"}}

\* the migrations whose up() or down() this run has completed
LogNames == {migRun.log[i].name : i \in 1..Len(migRun.log)}

\* the loop of runMigrations has processed every file of the run
LoopOver == migRun.pc = "loop" /\ migRun.todo = <<>>

\* C34: runMigrations(up) runs up() only for migrations of the directory
\* whose name is not in the migrations table when the run starts, in
\* ascending file-name order, and records each one as its up() completes;
\* a run that is not cut short by a failure has applied exactly those, so a
\* second up run right after applies nothing.
C34_MigrateUp ==
    (migRun.pc # "idle" /\ ~migRun.down)
    => /\ \A i \in 1..Len(migRun.log) : ~migRun.log[i].down
       /\ \A i, j \in 1..Len(migRun.log) :
             i < j => LexLess(migRun.log[i].name, migRun.log[j].name)
       /\ LogNames \cap migRun.executed = {}
       /\ migTable = migRun.executed \cup LogNames
       /\ migRun.pc = "loop" => LogNames \subseteq JsNames
       /\ LoopOver => (LogNames = JsNames \ migRun.executed /\ JsNames \subseteq migTable)
       /\ (LoopOver /\ JsNames \subseteq migRun.executed) => migRun.log = <<>>

\* C34 witness: an up run over three files, one of them recorded before the
\* run, is through its loop and has applied the other two
C34_Witness ==
    /\ LoopOver
    /\ ~migRun.down
    /\ JsNames = FileNames
    /\ Cardinality(migRun.executed) = 1
    /\ Len(migRun.log) = 2

\* C35: runMigrations(down) runs down() only for migrations of the directory
\* whose name is in the migrations table when the run starts, in descending
\* file-name order, and deletes the record of each one as its down()
\* completes; migrations never applied are skipped, and a run that is not cut
\* short by a failure leaves the migrations table without a record.
C35_MigrateDown ==
    (migRun.pc # "idle" /\ migRun.down)
    => /\ \A i \in 1..Len(migRun.log) : migRun.log[i].down
       /\ \A i, j \in 1..Len(migRun.log) :
             i < j => LexLess(migRun.log[j].name, migRun.log[i].name)
       /\ LogNames \subseteq migRun.executed
       /\ migTable = migRun.executed \ LogNames
       /\ LoopOver => (LogNames = migRun.executed \cap JsNames /\ migTable = {})

\* C35 witness: a down run over three files, two of them applied before, is
\* through its loop, has rolled back those two and skipped the third
C35_Witness ==
    /\ LoopOver
    /\ migRun.down
    /\ JsNames = FileNames
    /\ Len(migRun.log) = 2
    /\ migTable = {}

\* the step in which the call of fn returns with the given outcome
Returns(fn, success) ==
    /\ CallOf(fn) # {}
    /\ \A c \in calls' : c.fn # fn
    /\ ret' = Ret(fn, success)

\* C36: in AuthProvider isAuthenticated is true exactly when the token state
\* is not null; when logout has returned, token and user are null in the
\* state and absent from localStorage; a login that fails leaves the token
\* and the user of the state and of localStorage as they were; and when
\* login, register or updateProfile has returned, with success or with
\* failure, loading is false.
C36_SessionStore ==
    /\ [](/\ isAuthenticated(authState) <=> authState.token # "NULL"
          /\ ret = Ret("logout", TRUE)
                => /\ authState.token = "NULL"
                   /\ authState.user = <<>>
                   /\ localStorage = EmptyStorage
          /\ ret.fn \in {"login", "register", "updateProfile"}
                => ~authState.loading)
    /\ [][Returns("login", FALSE)
            => /\ localStorage' = localStorage
               /\ authState'.token = authState.token
               /\ authState'.user = authState.user]_clientVars

\* C36 witness: a login has failed while a session was stored, in the state
\* and in localStorage
C36_Witness ==
    /\ ret = Ret("login", FALSE)
    /\ authState.token \in SessionTokens
    /\ localStorage.token = authState.token
    /\ authState.user # <<>>
    /\ localStorage.user = JSONstringify(authState.user[1])

\* C37: when the submit of the Login form has succeeded, the token of the
\* AuthProvider state is the token in localStorage and isAuthenticated is
\* true, so that the PrivateRoute rendered next returns its child route and
\* not the redirect to /login.
C37_LoginFormSession ==
    ret = Ret("handleSubmit", TRUE)
    => /\ authState.token = localStorage.token
       /\ isAuthenticated(authState)
       /\ PrivateRoute(authState) = "Outlet"

====
